---- MODULE Spec2Model ----
(***************************************************************************)
(* Model of the batch pipeline of main.py: extract_to_bronze ->            *)
(* transform_to_silver -> create_gold_table -> load_data_to_sheets, run    *)
(* once by main.                                                           *)
(*                                                                         *)
(* A table (pandas DataFrame) is a record                                  *)
(*    [columns |-> sequence of column names, rows |-> sequence of rows]    *)
(* and a row is a function from the column names to cells.  A cell is one  *)
(* of                                                                      *)
(*    [k |-> "nan"]                 a null (NaN, NaT, None, pd.NA)         *)
(*    [k |-> "num", n, d]           the finite number n/d, d > 0, reduced  *)
(*    [k |-> "inf"], [k |-> "ninf"] the IEEE infinities                    *)
(*    [k |-> "str", s]              a string, s its sequence of characters *)
(*    [k |-> "ts", y, m, d]         a timestamp, of which only the date    *)
(*                                  matters to '%Y-%m-%d' and to the sort  *)
(* Floating point is modelled by exact rationals plus the IEEE special     *)
(* values, so x/0, 0/0 and inf*0 behave as in numpy; rounding is not       *)
(* modelled.                                                               *)
(***************************************************************************)
EXTENDS FiniteSets, Integers, Sequences, TLC

VARIABLES
    pc,          \* position of the run inside main
    provider,    \* how yf.download answered this run
    sheets_api,  \* how the spreadsheet service answered this run
    df_bronze,   \* main's local df_bronze
    df_silver,   \* main's local df_silver
    df_gold,     \* main's local df_gold
    grid,        \* data_to_upload, the grid dataframe_to_sheets_values returned
    calls,       \* the stage functions main has called, in order
    reads,       \* yf.download calls issued
    writes,      \* spreadsheet update calls issued
    exc,         \* the exception propagating out of a stage, "none" if none
    result       \* what main returned, "none" while it runs

vars == <<pc, provider, sheets_api, df_bronze, df_silver, df_gold, grid,
          calls, reads, writes, exc, result>>

(***************************************************************************)
(* Cells and IEEE arithmetic                                               *)
(***************************************************************************)
NaN == [k |-> "nan"]

Inf == [k |-> "inf"]

NegInf == [k |-> "ninf"]

Abs(i) == IF i < 0 THEN -i ELSE i

RECURSIVE GCD(_, _)
GCD(a, b) == IF b = 0 THEN a ELSE GCD(b, a % b)

\* the float n/d, d # 0, as a reduced fraction with a positive denominator
Num(n, d) ==
    LET g == GCD(Abs(n), Abs(d))
        s == IF d < 0 THEN -1 ELSE 1
    IN  [k |-> "num", n |-> (s * n) \div g, d |-> Abs(d) \div g]

Zero == Num(0, 1)

One == Num(1, 1)

Hundred == Num(100, 1)

Str(s) == [k |-> "str", s |-> s]

Timestamp(y, m, d) == [k |-> "ts", y |-> y, m |-> m, d |-> d]

\* pd.isnull / pd.notnull on one cell: the infinities are not null
IsNull(c) == c.k = "nan"

IsFinite(c) == c.k = "num"

IsInfinite(c) == c.k \in {"inf", "ninf"}

Sign(c) == IF c.k = "inf" THEN 1
           ELSE IF c.k = "ninf" THEN -1
           ELSE IF c.n > 0 THEN 1 ELSE IF c.n < 0 THEN -1 ELSE 0

Signed(s) == IF s < 0 THEN NegInf ELSE Inf

\* float division: x/0 is an infinity, 0/0 and inf/inf are NaN, no fault
FDiv(a, b) ==
    IF IsNull(a) \/ IsNull(b) THEN NaN
    ELSE IF IsFinite(a) /\ IsFinite(b)
         THEN IF b.n = 0
              THEN IF a.n = 0 THEN NaN ELSE Signed(a.n)
              ELSE Num(a.n * b.d, a.d * b.n)
    ELSE IF IsInfinite(a) /\ IsInfinite(b) THEN NaN
    ELSE IF IsInfinite(a) THEN Signed(Sign(a) * (IF b.n < 0 THEN -1 ELSE 1))
    ELSE Zero

\* float multiplication: inf * 0 is NaN
FMul(a, b) ==
    IF IsNull(a) \/ IsNull(b) THEN NaN
    ELSE IF IsFinite(a) /\ IsFinite(b) THEN Num(a.n * b.n, a.d * b.d)
    ELSE IF Sign(a) = 0 \/ Sign(b) = 0 THEN NaN
    ELSE Signed(Sign(a) * Sign(b))

\* float subtraction: inf - inf is NaN
FSub(a, b) ==
    IF IsNull(a) \/ IsNull(b) THEN NaN
    ELSE IF IsFinite(a) /\ IsFinite(b) THEN Num(a.n * b.d - b.n * a.d, a.d * b.d)
    ELSE IF IsInfinite(a) /\ IsInfinite(b)
         THEN IF a = b THEN NaN ELSE a
    ELSE IF IsInfinite(a) THEN a
    ELSE Signed(-Sign(b))

(***************************************************************************)
(* Tables                                                                  *)
(***************************************************************************)
Range(s) == {s[i] : i \in DOMAIN s}

\* pd.DataFrame(): no columns, no rows
EmptyFrame == [columns |-> <<>>, rows |-> <<>>]

\* DataFrame.empty: true when any axis has length 0
IsEmpty(df) == Len(df.columns) = 0 \/ Len(df.rows) = 0

\* df[col] = values, one cell per row; a new column is appended after the others
SetColumn(df, col, values) ==
    [columns |-> IF col \in Range(df.columns) THEN df.columns
                 ELSE Append(df.columns, col),
     rows |-> [i \in DOMAIN df.rows |-> (col :> values[i]) @@ df.rows[i]]]

\* df.drop(columns=names, errors='ignore')
DropColumns(df, names) ==
    [columns |-> SelectSeq(df.columns, LAMBDA c : c \notin names),
     rows |-> [i \in DOMAIN df.rows |->
                 [c \in (DOMAIN df.rows[i]) \ names |-> df.rows[i][c]]]]

\* df[names]: the named columns, in the order of names
Project(df, names) ==
    [columns |-> names,
     rows |-> [i \in DOMAIN df.rows |->
                 [c \in Range(names) |-> df.rows[i][c]]]]

\* fillna(0) on one cell
FillNa0(c) == IF IsNull(c) THEN Zero ELSE c

\* DataFrame.fillna(0): every null cell of every column becomes 0
FillNaFrame(df) ==
    [columns |-> df.columns,
     rows |-> [i \in DOMAIN df.rows |->
                 [c \in DOMAIN df.rows[i] |-> FillNa0(df.rows[i][c])]]]

\* pd.to_numeric(errors='coerce') on one cell: what is not a number is NaN
ToNumeric(c) == IF c.k \in {"num", "inf", "ninf"} THEN c ELSE NaN

\* astype(int) on one finite float: truncation toward zero
AsInt(c) == IF c.n >= 0 THEN Num(c.n \div c.d, 1) ELSE Num(-((-c.n) \div c.d), 1)

(***************************************************************************)
(* transform_to_silver                                                     *)
(***************************************************************************)
required == <<"Ticker", "Date", "Open", "High", "Low", "Close", "Volume", "Adj_Close">>

PriceColumns == <<"Open", "High", "Low", "Close", "Adj_Close">>

\* lines 92-94: every missing required column is inserted, all null
RECURSIVE InsertMissing(_, _)
InsertMissing(df, cols) ==
    IF cols = <<>> THEN df
    ELSE InsertMissing(IF Head(cols) \in Range(df.columns) THEN df
                       ELSE SetColumn(df, Head(cols), [i \in DOMAIN df.rows |-> NaN]),
                       Tail(cols))

\* lines 97-98: each price column is coerced to float, nulls become 0
RECURSIVE CoercePrices(_, _)
CoercePrices(df, cols) ==
    IF cols = <<>> THEN df
    ELSE CoercePrices(SetColumn(df, Head(cols),
                                [i \in DOMAIN df.rows |->
                                    FillNa0(ToNumeric(df.rows[i][Head(cols)]))]),
                      Tail(cols))

\* lines 96-98: Volume to integer, prices to float
Coerce(df) ==
    LET d1 == InsertMissing(df, required)
        d2 == SetColumn(d1, "Volume",
                        [i \in DOMAIN d1.rows |->
                            AsInt(FillNa0(ToNumeric(d1.rows[i]["Volume"])))])
    IN  CoercePrices(d2, PriceColumns)

\* the guard as the prose describes it: false when Close is 0 or null in every row
AdjustGuardAllZero(df) ==
    /\ "Adj_Close" \in Range(df.columns)
    /\ "Close" \in Range(df.columns)
    /\ ~ (\A i \in DOMAIN df.rows : FillNa0(df.rows[i]["Close"]) = Zero)

\* line 100: the guard of the adjustment step
AdjustGuard(df) ==
    /\ "Adj_Close" \in Range(df.columns)
    /\ "Close" \in Range(df.columns)
    /\ ~ (\A i \in DOMAIN df.rows : IsNull(df.rows[i]["Close"]))

\* the repricing with Adj_Close itself as the factor, the division forgotten
AdjustByAdjClose(df) ==
    LET factor == [i \in DOMAIN df.rows |-> df.rows[i]["Adj_Close"]]
        d2 == SetColumn(df, "Open", [i \in DOMAIN df.rows |-> FMul(df.rows[i]["Open"], factor[i])])
        d3 == SetColumn(d2, "High", [i \in DOMAIN df.rows |-> FMul(df.rows[i]["High"], factor[i])])
        d4 == SetColumn(d3, "Low", [i \in DOMAIN df.rows |-> FMul(df.rows[i]["Low"], factor[i])])
        d5 == SetColumn(d4, "Close", [i \in DOMAIN df.rows |-> df.rows[i]["Adj_Close"]])
    IN  DropColumns(d5, {"Adj_Close", "Adj_Close_Ratio"})

\* lines 101-106: row-wise repricing by Adj_Close / Close
Adjust(df) ==
    LET ratio == [i \in DOMAIN df.rows |-> FDiv(df.rows[i]["Adj_Close"], df.rows[i]["Close"])]
        d1 == SetColumn(df, "Adj_Close_Ratio", ratio)
        d2 == SetColumn(d1, "Open",
                        [i \in DOMAIN d1.rows |->
                            FMul(d1.rows[i]["Open"], d1.rows[i]["Adj_Close_Ratio"])])
        d3 == SetColumn(d2, "High",
                        [i \in DOMAIN d2.rows |->
                            FMul(d2.rows[i]["High"], d2.rows[i]["Adj_Close_Ratio"])])
        d4 == SetColumn(d3, "Low",
                        [i \in DOMAIN d3.rows |->
                            FMul(d3.rows[i]["Low"], d3.rows[i]["Adj_Close_Ratio"])])
        d5 == SetColumn(d4, "Close", [i \in DOMAIN d4.rows |-> d4.rows[i]["Adj_Close"]])
    IN  DropColumns(d5, {"Adj_Close", "Adj_Close_Ratio"})

transform_to_silver(bronze) ==
    IF IsEmpty(bronze) THEN bronze
    ELSE LET coerced == Coerce(bronze)
             adjusted == IF AdjustGuard(coerced) THEN Adjust(coerced) ELSE coerced
         IN  FillNaFrame(adjusted)

(***************************************************************************)
(* Strings, dates and their order                                          *)
(***************************************************************************)
Digits == <<"0", "1", "2", "3", "4", "5", "6", "7", "8", "9">>

\* the characters the model uses, in code-point order
Chars == <<"-", "/">> \o Digits \o <<"A", "B", "F", "G", "L", "M", "O", "P", "S", "T", "a", "n">>

Ord(ch) == CHOOSE i \in DOMAIN Chars : Chars[i] = ch

\* Python's str.__lt__: lexicographic by code point
RECURSIVE StrLess(_, _)
StrLess(a, b) ==
    IF b = <<>> THEN FALSE
    ELSE IF a = <<>> THEN TRUE
    ELSE IF Head(a) # Head(b) THEN Ord(Head(a)) < Ord(Head(b))
    ELSE StrLess(Tail(a), Tail(b))

DateLess(a, b) ==
    \/ a.y < b.y
    \/ a.y = b.y /\ a.m < b.m
    \/ a.y = b.y /\ a.m = b.m /\ a.d < b.d

\* ascending order of two cells of one column, nulls last (na_position='last')
CellLess(a, b) ==
    IF IsNull(a) THEN FALSE
    ELSE IF IsNull(b) THEN TRUE
    ELSE IF a.k = "str" THEN StrLess(a.s, b.s)
    ELSE IF a.k = "ts" THEN DateLess(a, b)
    ELSE a.n * b.d < b.n * a.d

\* zero-padded decimal of n in w characters
RECURSIVE Pad(_, _)
Pad(n, w) == IF w = 0 THEN <<>> ELSE Pad(n \div 10, w - 1) \o <<Digits[(n % 10) + 1]>>

\* the date formatted without zero padding
StrftimeUnpadded(t) ==
    Str(Pad(t.y, 4) \o <<"-">> \o Pad(t.m, IF t.m < 10 THEN 1 ELSE 2)
        \o <<"-">> \o Pad(t.d, IF t.d < 10 THEN 1 ELSE 2))

\* Timestamp.strftime('%Y-%m-%d')
Strftime(t) == Str(Pad(t.y, 4) \o <<"-">> \o Pad(t.m, 2) \o <<"-">> \o Pad(t.d, 2))

IsDigit(ch) == ch \in Range(Digits)

RECURSIVE ToInt(_)
ToInt(s) == IF s = <<>> THEN 0 ELSE 10 * ToInt(SubSeq(s, 1, Len(s) - 1)) + (Ord(s[Len(s)]) - Ord("0"))

IsLeap(y) == (y % 4 = 0 /\ y % 100 # 0) \/ y % 400 = 0

DaysInMonth(y, m) ==
    IF m = 2 THEN (IF IsLeap(y) THEN 29 ELSE 28)
    ELSE IF m \in {4, 6, 9, 11} THEN 30 ELSE 31

\* the shape YYYY-MM-DD
IsIsoShape(s) ==
    /\ Len(s) = 10
    /\ s[5] = "-" /\ s[8] = "-"
    /\ \A i \in {1, 2, 3, 4, 6, 7, 9, 10} : IsDigit(s[i])

\* pd.to_datetime(errors='coerce') on one cell: what does not parse is NaT.
\* The Date cells of the model are timestamps, strings and nulls.
ToDatetime(c) ==
    IF c.k = "ts" THEN c
    ELSE IF c.k = "str" /\ IsIsoShape(c.s)
         THEN LET y == ToInt(SubSeq(c.s, 1, 4))
                  m == ToInt(SubSeq(c.s, 6, 7))
                  d == ToInt(SubSeq(c.s, 9, 10))
              IN  IF m \in 1..12 /\ d \in 1..DaysInMonth(y, m)
                  THEN Timestamp(y, m, d) ELSE NaN
    ELSE NaN

(***************************************************************************)
(* create_gold_table                                                       *)
(***************************************************************************)
colunas_finais == <<"Ticker", "Date", "Open", "High", "Low", "Close", "Volume", "Daily_Change_Pct">>

RowLess(r1, r2) ==
    \/ CellLess(r1["Ticker"], r2["Ticker"])
    \/ r1["Ticker"] = r2["Ticker"] /\ CellLess(r1["Date"], r2["Date"])

RECURSIVE InsertSorted(_, _)
InsertSorted(sorted, r) ==
    IF sorted = <<>> THEN <<r>>
    ELSE IF RowLess(r, Head(sorted)) THEN <<r>> \o sorted
    ELSE <<Head(sorted)>> \o InsertSorted(Tail(sorted), r)

RECURSIVE InsertionSort(_)
InsertionSort(rows) ==
    IF rows = <<>> THEN <<>>
    ELSE InsertSorted(InsertionSort(SubSeq(rows, 1, Len(rows) - 1)), rows[Len(rows)])

\* line 119: sort_values(['Ticker', 'Date']).reset_index(drop=True), a stable sort
SortValues(rows) == InsertionSort(rows)

\* the preceding row of the same Ticker group, 0 when there is none
PrevInGroup(rows, i) ==
    LET before == {j \in 1..(i - 1) : rows[j]["Ticker"] = rows[i]["Ticker"]}
    IN  IF before = {} THEN 0 ELSE CHOOSE j \in before : \A l \in before : l <= j

\* the change as a fraction, the factor 100 forgotten
PctChangeUnscaled(rows, i) ==
    LET j == PrevInGroup(rows, i)
    IN  IF j = 0 THEN NaN
        ELSE FSub(FDiv(rows[i]["Close"], rows[j]["Close"]), One)

\* line 121: groupby('Ticker')['Close'].pct_change() * 100.  Close has no null
\* after the Cleaner, so pct_change has no gap to pad.
PctChange(rows, i) ==
    LET j == PrevInGroup(rows, i)
    IN  IF j = 0 THEN NaN
        ELSE FMul(FSub(FDiv(rows[i]["Close"], rows[j]["Close"]), One), Hundred)

\* the fillna of line 122 lost (it acts on a copy of the column)
DailyChangePctUnfilled(rows, i) == PctChange(rows, i)

\* lines 121-122: the Daily_Change_Pct of row i, nulls replaced by 0
DailyChangePct(rows, i) == FillNa0(PctChange(rows, i))

create_gold_table(silver) ==
    IF IsEmpty(silver) THEN silver
    ELSE LET sorted == SortValues(silver.rows)
             withPct == [columns |-> Append(silver.columns, "Daily_Change_Pct"),
                         rows |-> [i \in DOMAIN sorted |->
                                     ("Daily_Change_Pct" :> DailyChangePct(sorted, i))
                                         @@ sorted[i]]]
         IN  Project(withPct, colunas_finais)

(***************************************************************************)
(* dataframe_to_sheets_values                                              *)
(***************************************************************************)
EmptyString == Str(<<>>)

\* line 68: the Date column parsed and formatted; NaT formats to a null
FormatDate(c) ==
    LET t == ToDatetime(c) IN IF IsNull(t) THEN NaN ELSE Strftime(t)

\* line 70: where(pd.notnull(df2), '')
BlankNull(c) == IF IsNull(c) THEN EmptyString ELSE c

\* lines 72-76: a numpy scalar becomes the Python scalar of the same value
to_builtin(x) == x

dataframe_to_sheets_values(df) ==
    LET df2 == IF "Date" \in Range(df.columns)
               THEN SetColumn(df, "Date",
                              [i \in DOMAIN df.rows |-> FormatDate(df.rows[i]["Date"])])
               ELSE df
    IN  <<df2.columns>> \o
        [i \in DOMAIN df2.rows |->
            [j \in DOMAIN df2.columns |->
                to_builtin(BlankNull(df2.rows[i][df2.columns[j]]))]]

(***************************************************************************)
(* The market-data provider and extract_to_bronze                          *)
(***************************************************************************)
MaxRows == 2

AAPL == Str(<<"A", "A", "P", "L">>)

MSFT == Str(<<"M", "S", "F", "T">>)

\* the first tickers of the list of line 30
TOP_STOCKS_TICKERS == <<AAPL, MSFT>>

\* the values the provider's Date index can hold; NaT fails line 52-53
DateIndex == <<NaN, Timestamp(2024, 1, 2), Timestamp(2024, 1, 3)>>

Unparsable == Str(<<"n", "/", "a">>)

\* the bars (Open, High, Low, Close, Volume) one (Date, Ticker) pair can have
Bars ==
    { [Open |-> Num(100, 1), High |-> Num(101, 1), Low |-> Num(99, 1),
       Close |-> Num(100, 1), Volume |-> Num(1000, 1)],
      [Open |-> Num(102, 1), High |-> Num(103, 1), Low |-> Num(101, 1),
       Close |-> Num(102, 1), Volume |-> Num(2201, 2)],
      [Open |-> Num(1, 1), High |-> Num(2, 1), Low |-> Num(1, 1),
       Close |-> Zero, Volume |-> Unparsable],
      [Open |-> NaN, High |-> NaN, Low |-> NaN, Close |-> NaN, Volume |-> NaN] }

\* the adjusted closes one (Date, Ticker) pair can have
AdjCloses == {NaN, Zero, Num(98, 1), Num(100, 1), Num(102, 1)}

Keys == (DOMAIN DateIndex) \X (DOMAIN TOP_STOCKS_TICKERS)

KeySets == {ks \in SUBSET Keys : Cardinality(ks) \in 1..MaxRows}

KeyLess(a, b) == a[1] < b[1] \/ (a[1] = b[1] /\ a[2] < b[2])

\* the keys in index order: by position of the date, then of the ticker
RECURSIVE KeySeq(_)
KeySeq(ks) ==
    IF ks = {} THEN <<>>
    ELSE LET first == CHOOSE a \in ks : \A b \in ks \ {a} : KeyLess(a, b)
         IN  <<first>> \o KeySeq(ks \ {first})

\* what yf.download can do besides answering bars: raise, answer nothing, or
\* answer a frame whose reshaping raises
Failure(kind) == [kind |-> kind, keys |-> {}, hasAdj |-> TRUE, bars |-> <<>>, adj |-> <<>>]

\* an answer with bars for the (Date, Ticker) pairs ks
Data(ks, h, b, a) == [kind |-> "data", keys |-> ks, hasAdj |-> h, bars |-> b, adj |-> a]

BronzeColumns(hasAdj) ==
    <<"Date", "Ticker">> \o (IF hasAdj THEN <<"Adj_Close">> ELSE <<>>)
        \o <<"Close", "High", "Low", "Open", "Volume">>

\* lines 49-50: one row per (Date, Ticker) pair, in index order
Stack(resp) ==
    LET ks == KeySeq(resp.keys)
        cols == BronzeColumns(resp.hasAdj)
    IN  [columns |-> cols,
         rows |-> [i \in DOMAIN ks |->
                     [c \in Range(cols) |->
                         IF c = "Date" THEN DateIndex[ks[i][1]]
                         ELSE IF c = "Ticker" THEN TOP_STOCKS_TICKERS[ks[i][2]]
                         ELSE IF c = "Adj_Close" THEN resp.adj[ks[i]]
                         ELSE resp.bars[ks[i]][c]]]]

\* line 53: dropna(subset=['Date'])
DropNaDate(df) ==
    [columns |-> df.columns,
     rows |-> SelectSeq(df.rows, LAMBDA r : ~ IsNull(r["Date"]))]

extract_to_bronze(resp) ==
    IF resp.kind \in {"raised", "malformed"} THEN EmptyFrame
    ELSE IF resp.kind = "empty" THEN EmptyFrame
    ELSE LET stacked == Stack(resp)
             dates == [i \in DOMAIN stacked.rows |-> ToDatetime(stacked.rows[i]["Date"])]
         IN  DropNaDate(SetColumn(stacked, "Date", dates))

(***************************************************************************)
(* main                                                                    *)
(***************************************************************************)
Success == "Pipeline executado com sucesso!"

ErrorText == "Erro no pipeline: "

SheetsOutcomes == {"build_raised", "update_raised", "ok"}

Init ==
    /\ pc = "start"
    /\ provider = "none"
    /\ sheets_api = "none"
    /\ df_bronze = EmptyFrame
    /\ df_silver = EmptyFrame
    /\ df_gold = EmptyFrame
    /\ grid = <<>>
    /\ calls = <<>>
    /\ reads = 0
    /\ writes = 0
    /\ exc = "none"
    /\ result = "none"

\* extract_to_bronze without the handler of lines 58-60
ExtractWithPropagating(resp) ==
    /\ provider' = resp.kind
    /\ reads' = reads + 1
    /\ df_bronze' = extract_to_bronze(resp)
    /\ calls' = Append(calls, "extract_to_bronze")
    /\ exc' = IF resp.kind \in {"raised", "malformed"} THEN "extract_raised" ELSE "none"
    /\ pc' = IF resp.kind \in {"raised", "malformed"} THEN "raised" ELSE "extracted"
    /\ UNCHANGED <<sheets_api, df_silver, df_gold, grid, writes, result>>

\* line 164: extract_to_bronze(), which catches whatever the download or the
\* reshaping raises
ExtractWith(resp) ==
    /\ provider' = resp.kind
    /\ reads' = reads + 1
    /\ df_bronze' = extract_to_bronze(resp)
    /\ calls' = Append(calls, "extract_to_bronze")
    /\ exc' = "none"
    /\ pc' = "extracted"
    /\ UNCHANGED <<sheets_api, df_silver, df_gold, grid, writes, result>>

Extract ==
    /\ pc = "start"
    /\ \/ \E kind \in {"raised", "empty", "malformed"} : ExtractWith(Failure(kind))
       \/ \E ks \in KeySets, h \in BOOLEAN :
             \E b \in [ks -> Bars] :
                \E a \in (IF h THEN [ks -> AdjCloses] ELSE {[key \in ks |-> NaN]}) :
                   ExtractWith(Data(ks, h, b, a))

\* line 165
Transform ==
    /\ pc = "extracted"
    /\ df_silver' = transform_to_silver(df_bronze)
    /\ calls' = Append(calls, "transform_to_silver")
    /\ pc' = "transformed"
    /\ UNCHANGED <<provider, sheets_api, df_bronze, df_gold, grid, reads, writes, exc, result>>

\* line 166
Aggregate ==
    /\ pc = "transformed"
    /\ df_gold' = create_gold_table(df_silver)
    /\ calls' = Append(calls, "create_gold_table")
    /\ pc' = "aggregated"
    /\ UNCHANGED <<provider, sheets_api, df_bronze, df_silver, grid, reads, writes, exc, result>>

\* load_data_to_sheets called whatever df_gold holds (the test of line 168 lost)
LoadWithUnguarded(outcome) ==
    /\ pc = "aggregated"
    /\ sheets_api' = outcome
    /\ calls' = Append(calls, "load_data_to_sheets")
    /\ grid' = IF outcome = "build_raised" THEN grid
               ELSE dataframe_to_sheets_values(df_gold)
    /\ writes' = IF outcome = "build_raised" THEN writes ELSE writes + 1
    /\ exc' = IF outcome = "ok" THEN "none" ELSE outcome
    /\ pc' = IF outcome = "ok" THEN "finishing" ELSE "raised"
    /\ UNCHANGED <<provider, df_bronze, df_silver, df_gold, reads, result>>

\* load_data_to_sheets logging the failure without the raise of line 151
LoadWithSwallowed(outcome) ==
    /\ pc = "aggregated"
    /\ ~ IsEmpty(df_gold)
    /\ sheets_api' = outcome
    /\ calls' = Append(calls, "load_data_to_sheets")
    /\ grid' = IF outcome = "build_raised" THEN grid
               ELSE dataframe_to_sheets_values(df_gold)
    /\ writes' = IF outcome = "build_raised" THEN writes ELSE writes + 1
    /\ exc' = "none"
    /\ pc' = "finishing"
    /\ UNCHANGED <<provider, df_bronze, df_silver, df_gold, reads, result>>

\* load_data_to_sheets tried again after a failed update call
LoadWithRetry(outcome) ==
    /\ pc = "aggregated"
    /\ ~ IsEmpty(df_gold)
    /\ writes < 2
    /\ sheets_api' = outcome
    /\ calls' = Append(calls, "load_data_to_sheets")
    /\ grid' = IF outcome = "build_raised" THEN grid
               ELSE dataframe_to_sheets_values(df_gold)
    /\ writes' = IF outcome = "build_raised" THEN writes ELSE writes + 1
    /\ exc' = IF outcome = "build_raised" THEN outcome ELSE "none"
    /\ pc' = IF outcome = "ok" THEN "finishing"
             ELSE IF outcome = "update_raised" THEN "aggregated" ELSE "raised"
    /\ UNCHANGED <<provider, df_bronze, df_silver, df_gold, reads, result>>

\* lines 130-151: load_data_to_sheets; build() or the update call can raise,
\* and the handler re-raises
LoadWith(outcome) ==
    /\ pc = "aggregated"
    /\ ~ IsEmpty(df_gold)
    /\ sheets_api' = outcome
    /\ calls' = Append(calls, "load_data_to_sheets")
    /\ grid' = IF outcome = "build_raised" THEN grid
               ELSE dataframe_to_sheets_values(df_gold)
    /\ writes' = IF outcome = "build_raised" THEN writes ELSE writes + 1
    /\ exc' = IF outcome = "ok" THEN "none" ELSE outcome
    /\ pc' = IF outcome = "ok" THEN "finishing" ELSE "raised"
    /\ UNCHANGED <<provider, df_bronze, df_silver, df_gold, reads, result>>

\* line 171
Load == \E outcome \in SheetsOutcomes : LoadWith(outcome)

\* lines 172-173: an empty Gold table is not published
SkipLoad ==
    /\ pc = "aggregated"
    /\ IsEmpty(df_gold)
    /\ pc' = "finishing"
    /\ UNCHANGED <<provider, sheets_api, df_bronze, df_silver, df_gold, grid,
                   calls, reads, writes, exc, result>>

\* lines 175-177
Return ==
    /\ pc = "finishing"
    /\ result' = Success
    /\ pc' = "done"
    /\ UNCHANGED <<provider, sheets_api, df_bronze, df_silver, df_gold, grid,
                   calls, reads, writes, exc>>

\* lines 178-180: the catch-all turns the exception into the returned text
Catch ==
    /\ pc = "raised"
    /\ result' = ErrorText
    /\ exc' = "none"
    /\ pc' = "done"
    /\ UNCHANGED <<provider, sheets_api, df_bronze, df_silver, df_gold, grid,
                   calls, reads, writes>>

Next == Extract \/ Transform \/ Aggregate \/ Load \/ SkipLoad \/ Return \/ Catch

Spec == Init /\ [][Next]_vars

(***************************************************************************)
(* dataframe_to_sheets_values on its own, applied to a table drawn by Init *)
(***************************************************************************)
MaxSheetRows == 2

SheetColumns == {<<"Ticker", "Date", "Close">>, <<"Date", "Close", "Ticker">>, <<"Ticker", "Close">>}

\* the cells a column of the table given to the function can hold
SheetCells(c) ==
    IF c = "Date"
    THEN {NaN, Timestamp(2024, 1, 2), Timestamp(2023, 12, 31),
          Str(<<"2", "0", "2", "4", "-", "0", "2", "-", "2", "9">>),
          Str(<<"2", "0", "2", "3", "-", "0", "2", "-", "2", "9">>), Unparsable}
    ELSE IF c = "Ticker" THEN {NaN, AAPL}
    ELSE {NaN, Num(201, 2), Inf}

\* the rows a table with the columns cols can hold
SheetRows(cols) ==
    {r \in [Range(cols) -> UNION {SheetCells(c) : c \in Range(cols)}] :
        \A c \in Range(cols) : r[c] \in SheetCells(c)}

InitSheets ==
    /\ pc = "sheets"
    /\ provider = "none"
    /\ sheets_api = "none"
    /\ df_bronze = EmptyFrame
    /\ df_silver = EmptyFrame
    /\ \E cols \in SheetColumns, n \in 0..MaxSheetRows :
          \E rs \in [1..n -> SheetRows(cols)] :
             df_gold = [columns |-> cols, rows |-> rs]
    /\ grid = <<>>
    /\ calls = <<>>
    /\ reads = 0
    /\ writes = 0
    /\ exc = "none"
    /\ result = "none"

\* lines 63-81: the function works on the copy of line 65, so the caller's
\* table is what it was
Serialize ==
    /\ pc = "sheets"
    /\ grid' = dataframe_to_sheets_values(df_gold)
    /\ df_gold' = df_gold
    /\ pc' = "serialized"
    /\ UNCHANGED <<provider, sheets_api, df_bronze, df_silver, calls, reads, writes, exc, result>>

NextSheets == Serialize

SpecSheets == InitSheets /\ [][NextSheets]_vars

(***************************************************************************)
(* Properties                                                              *)
(***************************************************************************)
AfterTransform == pc \in {"transformed", "aggregated", "finishing", "raised", "done"}

AfterAggregate == pc \in {"aggregated", "finishing", "raised", "done"}

HasColumn(df, c) == c \in Range(df.columns)

\* a raw cell as lines 97-98 coerce it
Coerced(c) == FillNa0(ToNumeric(c))

OHLC == {"Open", "High", "Low", "Close"}

LoadCalled == "load_data_to_sheets" \in Range(calls)

StageOrder == <<"extract_to_bronze", "transform_to_silver", "create_gold_table", "load_data_to_sheets">>

\* C1: when extract_to_bronze returns an empty table, transform_to_silver and
\* create_gold_table return empty tables, nothing raises, load_data_to_sheets
\* is never called and main returns the success string.
C1_EmptyExtractionSkipsLoad ==
    (pc # "start" /\ IsEmpty(df_bronze)) =>
        /\ AfterTransform => IsEmpty(df_silver)
        /\ AfterAggregate => IsEmpty(df_gold)
        /\ exc = "none" /\ pc # "raised"
        /\ ~ LoadCalled /\ writes = 0 /\ sheets_api = "none"
        /\ pc = "done" => result = Success

\* a finished run whose extraction produced columns but no row (every Date NaT)
C1_Witness ==
    /\ pc = "done"
    /\ provider = "data"
    /\ Len(df_bronze.columns) > 0 /\ Len(df_bronze.rows) = 0
    /\ result = Success

\* C2: a failure inside load_data_to_sheets propagates to main, main returns
\* the error text and not the success string, and no exception leaves main.
C2_LoadFailureBecomesErrorText ==
    /\ sheets_api \in {"build_raised", "update_raised"} =>
          /\ pc \in {"raised", "done"}
          /\ pc = "raised" => exc = sheets_api
          /\ pc = "done" => result = ErrorText
    /\ pc = "done" => (exc = "none" /\ result \in {Success, ErrorText})

\* a finished run whose update call raised
C2_Witness ==
    /\ pc = "done"
    /\ sheets_api = "update_raised"
    /\ result = ErrorText

\* C3: extract_to_bronze never propagates: when the download or the reshaping
\* raises it returns an empty table, and the run ends without a publication
\* call and with the success string.
C3_ExtractionFailureIsEmptyTable ==
    /\ pc = "extracted" => exc = "none"
    /\ provider \in {"raised", "malformed"} =>
          /\ df_bronze = EmptyFrame
          /\ exc = "none" /\ pc # "raised"
          /\ ~ LoadCalled /\ writes = 0
          /\ pc = "done" => result = Success

\* a finished run whose download raised
C3_Witness ==
    /\ pc = "done"
    /\ provider = "raised"
    /\ result = Success

\* C4: the read and the write are each issued at most once, also after a
\* failure, and the write comes only after extraction, cleaning and
\* aggregation, called in that order.
C4_OneReadOneWriteInOrder ==
    /\ reads <= 1
    /\ writes <= 1
    /\ Len(calls) <= Len(StageOrder)
    /\ calls = SubSeq(StageOrder, 1, Len(calls))
    /\ writes = 1 => calls = StageOrder

\* a finished run whose single update call failed and was not repeated
C4_Witness ==
    /\ pc = "done"
    /\ sheets_api = "update_raised"
    /\ reads = 1 /\ writes = 1

CloseAllZero(df) ==
    \A i \in DOMAIN df.rows : Coerced(df.rows[i]["Close"]) = Zero

\* C5: for a non-empty input whose Close is zero or null in every row the
\* adjustment is skipped: Open, High, Low and Close come out as the coerced
\* input values and Adj_Close is dropped.
C5_AllZeroCloseUnadjusted ==
    (AfterTransform /\ ~ IsEmpty(df_bronze) /\ CloseAllZero(df_bronze)) =>
        /\ \A i \in DOMAIN df_bronze.rows : \A c \in OHLC :
              df_silver.rows[i][c] = Coerced(df_bronze.rows[i][c])
        /\ ~ HasColumn(df_silver, "Adj_Close")

\* every row has a finite Adj_Close equal to its Close
AlreadyAdjusted(df) ==
    /\ HasColumn(df, "Adj_Close")
    /\ \A i \in DOMAIN df.rows :
          /\ IsFinite(df.rows[i]["Close"])
          /\ df.rows[i]["Adj_Close"] = df.rows[i]["Close"]

CloseNonZero(df) == \A i \in DOMAIN df.rows : df.rows[i]["Close"] # Zero

PricesKept(before, after) ==
    \A i \in DOMAIN before.rows : \A c \in OHLC :
        after.rows[i][c] = Coerced(before.rows[i][c])

\* the output given back to the Cleaner with Adj_Close set to its Close
Readjusted(df) ==
    transform_to_silver(SetColumn(df, "Adj_Close",
                                  [i \in DOMAIN df.rows |-> df.rows[i]["Close"]]))

\* C6 as stated: when Adj_Close equals Close in every row, the output prices
\* equal the input prices, and adjusting the output again changes nothing.
C6_AdjustedInputUnchanged ==
    (AfterTransform /\ ~ IsEmpty(df_bronze) /\ AlreadyAdjusted(df_bronze)) =>
        /\ PricesKept(df_bronze, df_silver)
        /\ \A again \in {Readjusted(df_silver)} : PricesKept(df_silver, again)

\* C6 amended: the same, for inputs whose Close is also non-zero in every row.
C6_AdjustedNonZeroInputUnchanged ==
    (AfterTransform /\ ~ IsEmpty(df_bronze) /\ AlreadyAdjusted(df_bronze)
        /\ CloseNonZero(df_bronze)) =>
        /\ PricesKept(df_bronze, df_silver)
        /\ \A again \in {Readjusted(df_silver)} : PricesKept(df_silver, again)

\* two already-adjusted rows with a non-zero Close went through the Cleaner
C6_Witness ==
    /\ AfterTransform
    /\ Len(df_bronze.rows) >= 2
    /\ AlreadyAdjusted(df_bronze)
    /\ CloseNonZero(df_bronze)
    /\ \E i \in DOMAIN df_silver.rows : df_silver.rows[i]["Open"] = Num(102, 1)

SameTicker(df, i, j) == df.rows[i]["Ticker"] = df.rows[j]["Ticker"]

Earlier(df, i, j) == DateLess(df.rows[i]["Date"], df.rows[j]["Date"])

\* row i is the first chronological row of its ticker
FirstOfTicker(df, i) ==
    \A j \in DOMAIN df.rows : (j # i /\ SameTicker(df, i, j)) => Earlier(df, i, j)

\* the row of the same ticker with the latest Date before that of row i
Predecessor(df, i) ==
    CHOOSE j \in DOMAIN df.rows :
        /\ SameTicker(df, i, j) /\ Earlier(df, j, i)
        /\ \A l \in DOMAIN df.rows :
              (SameTicker(df, i, l) /\ Earlier(df, l, i)) => ~ Earlier(df, j, l)

\* C7: in a non-empty Gold table the first chronological row of every ticker
\* has Daily_Change_Pct 0, and the rows ascend by (Ticker, Date).
C7_FirstRowZeroAndSorted ==
    (AfterAggregate /\ ~ IsEmpty(df_gold)) =>
        /\ \A i \in DOMAIN df_gold.rows :
              FirstOfTicker(df_gold, i) => df_gold.rows[i]["Daily_Change_Pct"] = Zero
        /\ \A i \in 1..(Len(df_gold.rows) - 1) :
              \/ StrLess(df_gold.rows[i]["Ticker"].s, df_gold.rows[i + 1]["Ticker"].s)
              \/ /\ SameTicker(df_gold, i, i + 1)
                 /\ Earlier(df_gold, i, i + 1)

\* a Gold table of two tickers whose rows the sort had to reorder
C7_Witness ==
    /\ AfterAggregate
    /\ Len(df_gold.rows) >= 2
    /\ \E i, j \in DOMAIN df_gold.rows : ~ SameTicker(df_gold, i, j)
    /\ [i \in DOMAIN df_gold.rows |-> df_gold.rows[i]["Ticker"]]
          # [i \in DOMAIN df_silver.rows |-> df_silver.rows[i]["Ticker"]]

\* (Close_t / Close_prev - 1) * 100 in IEEE arithmetic
ChangeFormula(df, i) ==
    FMul(FSub(FDiv(df.rows[i]["Close"], df.rows[Predecessor(df, i)]["Close"]), One), Hundred)

\* C8 as stated: every row after the first of its ticker has Daily_Change_Pct
\* equal to (Close_t / Close_prev - 1) * 100, also when Close_prev is 0.
C8_ChangeIsFormula ==
    (AfterAggregate /\ ~ IsEmpty(df_gold)) =>
        \A i \in DOMAIN df_gold.rows :
            ~ FirstOfTicker(df_gold, i) =>
                df_gold.rows[i]["Daily_Change_Pct"] = ChangeFormula(df_gold, i)

\* C8 amended: the same, except that where Close_t and Close_prev are both 0
\* (the quotient is undefined) Daily_Change_Pct is 0.
C8_ChangeIsFormulaOrZero ==
    (AfterAggregate /\ ~ IsEmpty(df_gold)) =>
        \A i \in DOMAIN df_gold.rows :
            ~ FirstOfTicker(df_gold, i) =>
                df_gold.rows[i]["Daily_Change_Pct"] =
                    IF /\ df_gold.rows[i]["Close"] = Zero
                       /\ df_gold.rows[Predecessor(df_gold, i)]["Close"] = Zero
                    THEN Zero
                    ELSE ChangeFormula(df_gold, i)

\* a Gold table with a later row of a ticker whose Close and previous Close
\* are both 0
C8_Witness ==
    /\ AfterAggregate
    /\ \E i \in DOMAIN df_gold.rows :
          /\ ~ FirstOfTicker(df_gold, i)
          /\ df_gold.rows[Predecessor(df_gold, i)]["Close"] = Zero
          /\ df_gold.rows[i]["Close"] = Zero
          /\ df_gold.rows[i]["Daily_Change_Pct"] = Zero

\* the cell is a string of the shape YYYY-MM-DD
IsIsoDateString(c) == c.k = "str" /\ IsIsoShape(c.s)

\* the string spells the calendar date t
Spells(c, t) ==
    /\ ToInt(SubSeq(c.s, 1, 4)) = t.y
    /\ ToInt(SubSeq(c.s, 6, 7)) = t.m
    /\ ToInt(SubSeq(c.s, 9, 10)) = t.d

\* g is the grid of the table df
GridOf(df, g) ==
    /\ Len(g) = Len(df.rows) + 1
    /\ g[1] = df.columns
    /\ \A i \in DOMAIN df.rows :
          /\ Len(g[i + 1]) = Len(df.columns)
          /\ \A j \in DOMAIN df.columns :
                LET cell == df.rows[i][df.columns[j]]
                    out == g[i + 1][j]
                IN  /\ IsNull(cell) => out = EmptyString
                    /\ df.columns[j] = "Date" =>
                          /\ out = EmptyString \/ IsIsoDateString(out)
                          /\ cell.k = "ts" => (IsIsoDateString(out) /\ Spells(out, cell))
                          /\ cell = Unparsable => out = EmptyString
                    /\ (df.columns[j] # "Date" /\ ~ IsNull(cell)) => out = cell

\* C9: the grid is the header row and then one row per record in input
\* order, every Date cell is a YYYY-MM-DD string or, when the date is null or
\* does not parse, the empty string, every null cell is the empty string, and
\* the table given is left as it was.
C9_GridOfTable ==
    [][(pc = "sheets" /\ pc' = "serialized") =>
          (GridOf(df_gold, grid') /\ df_gold' = df_gold)]_vars

\* a serialized table with a timestamp, a date that does not parse and a null
C9_Witness ==
    /\ pc = "serialized"
    /\ Len(grid) = 3
    /\ HasColumn(df_gold, "Date")
    /\ \E i, j \in DOMAIN df_gold.rows :
          /\ df_gold.rows[i]["Date"] = Timestamp(2024, 1, 2)
          /\ df_gold.rows[j]["Date"] = Unparsable
          /\ IsNull(df_gold.rows[j]["Close"])

\* C10: for a non-empty input the guard of line 100 is true, so the output
\* has no Adj_Close and no Adj_Close_Ratio column and no null, and its Close
\* is the coerced Adj_Close of the input, 0 when the input has no such column.
C10_AdjustmentAlwaysRuns ==
    (AfterTransform /\ ~ IsEmpty(df_bronze)) =>
        /\ AdjustGuard(Coerce(df_bronze))
        /\ ~ HasColumn(df_silver, "Adj_Close")
        /\ ~ HasColumn(df_silver, "Adj_Close_Ratio")
        /\ Len(df_silver.rows) = Len(df_bronze.rows)
        /\ \A i \in DOMAIN df_silver.rows :
              /\ \A c \in DOMAIN df_silver.rows[i] : ~ IsNull(df_silver.rows[i][c])
              /\ df_silver.rows[i]["Close"] =
                    IF HasColumn(df_bronze, "Adj_Close")
                    THEN Coerced(df_bronze.rows[i]["Adj_Close"])
                    ELSE Zero

\* an input without Adj_Close and with Close 0 in every row went through the
\* Cleaner
C10_Witness ==
    /\ AfterTransform
    /\ ~ IsEmpty(df_bronze)
    /\ ~ HasColumn(df_bronze, "Adj_Close")
    /\ CloseAllZero(df_bronze)
    /\ \E i \in DOMAIN df_bronze.rows : df_bronze.rows[i]["Open"] = One

====
